---- MODULE Spec2Model ----
(***************************************************************************)
(* Model of status-upstream.rs: the hysteresis tracker of ServiceWrapper   *)
(* (connlib.rs), the status derivation From<Vec<bool>> (connlib.rs), the   *)
(* upstream status conversion (statuspagelib.rs) and the check cycle       *)
(* main_work driven by async_main (main.rs).                               *)
(*                                                                         *)
(* Three specifications share the module:                                  *)
(*   Spec        the agent: scheduler task, select! and process exit       *)
(*   TrackerSpec one ServiceWrapper under repeated                         *)
(*               update_last_status_condition calls                        *)
(*   DeriveSpec  ServerLastStatus::from(Vec<bool>) on bounded vectors      *)
(***************************************************************************)
EXTENDS Integers, Sequences, FiniteSets

\* ---------------------------------------------------------------- bounds
MaxServices == 2
MaxAddr == 1
MaxRetries == 3
MaxThreshold == 2
MaxRounds == 3
MaxVecLen == 5

\* ------------------------------------------------------------ data types
\* last_status values a service is started with: read from the cache
\* (Unknown included) or fetched from the upstream
InitStatuses == {"Optional", "Outage", "Unknown"}

\* connlib.rs enum ServerLastStatus (the first variant is spelled Optional)
ServerLastStatus ==
    {"Optional", "Outage", "DegradedPerformance", "PartialOutage", "Unknown"}

\* statuspagelib.rs enum ComponentStatus, by its Display strings
ComponentStatus ==
    {"operational", "under_maintenance", "degraded_performance",
     "partial_outage", "major_outage"}

RECURSIVE BoolVecs(_)
\* every Vec<bool> of length n
BoolVecs(n) ==
    IF n = 0 THEN {<<>>}
    ELSE {Append(v, b) : v \in BoolVecs(n - 1), b \in BOOLEAN}

RECURSIVE CountTrue(_)
\* v.iter().filter(|x| **x == true).count()
CountTrue(v) ==
    IF v = <<>> THEN 0
    ELSE (IF v[1] THEN 1 ELSE 0) + CountTrue(Tail(v))

\* ------------------------------------------------------- pure functions
\* Mutant of ServerLastStatusFromVec: any failing address is an outage.
FromVec_binary(v) ==
    IF Len(v) = 0 THEN "Unknown"
    ELSE IF CountTrue(v) = Len(v) THEN "Optional"
    ELSE "Outage"

\* impl From<Vec<bool>> for ServerLastStatus.  The f32 comparison
\*   answer / n >= n / 3.0 * 2.0
\* is taken over positive numbers, so it is 3 * answer >= 2 * n * n.
ServerLastStatusFromVec(v) ==
    LET n == Len(v)
        answer == CountTrue(v)
    IN  IF n = 0 THEN "Unknown"
        ELSE IF answer = n THEN "Optional"
        ELSE IF answer = 0 THEN "Outage"
        ELSE IF n = 2 THEN "PartialOutage"
        ELSE IF 3 * answer >= 2 * n * n THEN "DegradedPerformance"
        ELSE "PartialOutage"

\* impl From<&ServerLastStatus> for ComponentStatus; the Unknown arm is
\* unreachable!(), modelled as the value "panic"
ComponentStatusFrom(status) ==
    CASE status = "Optional" -> "operational"
      [] status = "Outage" -> "major_outage"
      [] status = "DegradedPerformance" -> "degraded_performance"
      [] status = "PartialOutage" -> "partial_outage"
      [] OTHER -> "panic"

\* impl Display for ServerLastStatus, with one variant misspelled
Display_misspelled(status) ==
    CASE status = "Optional" -> "optional"
      [] status = "Outage" -> "major_outage"
      [] status = "DegradedPerformance" -> "degraded_performance"
      [] status = "PartialOutage" -> "partial_outage"
      [] OTHER -> "unknown"

\* impl std::fmt::Display for ServerLastStatus
ServerLastStatusDisplay(status) ==
    CASE status = "Optional" -> "operational"
      [] status = "Outage" -> "major_outage"
      [] status = "DegradedPerformance" -> "degraded_performance"
      [] status = "PartialOutage" -> "partial_outage"
      [] OTHER -> "unknown"

\* impl TryFrom<&str> for ServerLastStatus: never an error
ServerLastStatusTryFrom(value) ==
    CASE value = "operational" -> "Optional"
      [] value = "major_outage" -> "Outage"
      [] value = "degraded_performance" -> "DegradedPerformance"
      [] value = "partial_outage" -> "PartialOutage"
      [] OTHER -> "Unknown"

\* cache.rs:141  v2::VERSION, re-exported as CURRENT_VERSION
CURRENT_VERSION == 2

\* cache.rs:21
DEADLINE == 600

\* impl From<&ServiceWrapper> for ComponentCache
ComponentCacheFrom(service) ==
    [id |-> service.report_uuid,
     last_status |-> ServerLastStatusDisplay(service.last_status)]

\* A cache file on disk.  kind is "missing" (no readable file),
\* "malformed" (the header {version, timestamp} does not parse),
\* "header_only" (the header parses, the full CacheData does not) or
\* "snapshot"; origin tells a file the agent wrote from one it found.
NoFile ==
    [kind |-> "missing", version |-> 0, timestamp |-> 0, body |-> <<>>,
     origin |-> "given"]

\* CacheData::from_configure followed by serde_json::to_string: the JSON
\* object {version, timestamp, data}
CacheDataFromConfigure(svcs, timestamp) ==
    [kind |-> "snapshot",
     version |-> CURRENT_VERSION,
     timestamp |-> timestamp,
     body |-> [i \in 1..Len(svcs) |-> ComponentCacheFrom(svcs[i])],
     origin |-> "agent"]

\* get_current_timestamp() - result.timestamp() > DEADLINE in u64: a
\* timestamp in the future makes the subtraction overflow, which panics
\* when overflow checks are compiled in and wraps to a value far above
\* DEADLINE when they are not.  The set of possible outcomes of the test.
AgeTest(t, timestamp) ==
    IF timestamp <= t
    THEN {IF t - timestamp > DEADLINE THEN "outdated" ELSE "fresh"}
    ELSE {"outdated", "panic"}

\* read_cache: the set of outcomes for a file content and a current time
read_cache(file, t) ==
    IF file.kind = "missing" THEN {[tag |-> "io", data |-> <<>>]}
    ELSE IF file.kind = "malformed" THEN {[tag |-> "decode", data |-> <<>>]}
    ELSE IF file.version # CURRENT_VERSION
    THEN {[tag |-> "version", data |-> <<>>]}
    ELSE {IF a = "panic" THEN [tag |-> "panic", data |-> <<>>]
          ELSE IF a = "outdated" THEN [tag |-> "outdated", data |-> <<>>]
          ELSE IF file.kind = "header_only"
          THEN [tag |-> "decode_full", data |-> <<>>]
          ELSE [tag |-> "ok", data |-> file.body]
          : a \in AgeTest(t, file.timestamp)}

\* the value of the read history before any read
NoRead == [tag |-> "none", data |-> <<>>, file |-> NoFile, at |-> 0]

\* main.rs:111-117  if cache.is_ok() { Some(cache.unwrap()) } else { None },
\* None being the empty list of entries.  This variant also uses the
\* entries of a snapshot that read_cache rejected as outdated.
cache_option_stale(r) ==
    IF r.tag \in {"ok", "outdated"} THEN r.file.body ELSE <<>>

\* main.rs:111-117  if cache.is_ok() { Some(cache.unwrap()) } else { None },
\* None being the empty list of entries
cache_option(r) == IF r.tag = "ok" THEN r.data ELSE <<>>

\* Configure::convert_cache_vec_to_map with every entry dropped
convert_cache_dropped(data) == [id \in {} |-> "Unknown"]

\* Configure::convert_cache_vec_to_map: id -> parsed status, a later entry
\* of the same id replacing an earlier one
convert_cache_vec_to_map(data) ==
    [id \in {data[j].id : j \in DOMAIN data} |->
        LET last == CHOOSE j \in DOMAIN data :
                        /\ data[j].id = id
                        /\ \A k \in DOMAIN data : k > j => data[k].id # id
        IN  ServerLastStatusTryFrom(data[last].last_status)]

\* impl From<&ComponentStatus> for ServerLastStatus reduced to up and down
FromComponent_binary(status) ==
    IF status = "operational" THEN "Optional" ELSE "Outage"

\* impl From<&ComponentStatus> for ServerLastStatus
ServerLastStatusFromComponent(status) ==
    IF status = "operational" THEN "Optional"
    ELSE IF status = "degraded_performance" THEN "DegradedPerformance"
    ELSE IF status = "partial_outage" THEN "PartialOutage"
    ELSE "Outage"

\* ServiceWrapper::ongoing_recheck
ongoing_recheck(s) == s.count > 0

\* ServiceWrapper::reset_count
reset_count(s) == [s EXCEPT !.count = 0]

\* Faulty variants of update_last_status_condition, each a slip the
\* theorems below must detect.
update_never_full(s, last_status, condition) ==
    IF s.last_status # last_status
    THEN IF s.count > condition
         THEN [s |-> [s EXCEPT !.last_status = last_status, !.count = 0],
               ret |-> TRUE]
         ELSE [s |-> [s EXCEPT !.count = s.count + 1], ret |-> FALSE]
    ELSE [s |-> [s EXCEPT !.count = 0], ret |-> FALSE]

update_early_flip(s, last_status, condition) ==
    IF s.last_status # last_status
    THEN IF s.count + 1 >= condition
         THEN [s |-> [s EXCEPT !.last_status = last_status, !.count = 0],
               ret |-> TRUE]
         ELSE [s |-> [s EXCEPT !.count = s.count + 1], ret |-> FALSE]
    ELSE [s |-> [s EXCEPT !.count = 0], ret |-> FALSE]

update_keep_count(s, last_status, condition) ==
    IF s.last_status # last_status
    THEN IF s.count >= condition
         THEN [s |-> [s EXCEPT !.last_status = last_status, !.count = 0],
               ret |-> TRUE]
         ELSE [s |-> [s EXCEPT !.count = s.count + 1], ret |-> FALSE]
    ELSE [s |-> s, ret |-> FALSE]

update_flip_keeps_count(s, last_status, condition) ==
    IF s.last_status # last_status
    THEN IF s.count >= condition
         THEN [s |-> [s EXCEPT !.last_status = last_status], ret |-> TRUE]
         ELSE [s |-> [s EXCEPT !.count = s.count + 1], ret |-> FALSE]
    ELSE [s |-> [s EXCEPT !.count = 0], ret |-> FALSE]

update_defer_commit(s, last_status, condition) ==
    IF s.last_status # last_status
    THEN IF s.count >= condition
         THEN [s |-> [s EXCEPT !.count = 0], ret |-> TRUE]
         ELSE [s |-> [s EXCEPT !.count = s.count + 1], ret |-> FALSE]
    ELSE [s |-> [s EXCEPT !.count = 0], ret |-> FALSE]

update_rebuilds_wrapper(s, last_status, condition) ==
    IF s.last_status # last_status
    THEN IF s.count >= condition
         THEN [s |-> [s EXCEPT !.last_status = last_status, !.count = 0,
                               !.naddr = 0],
               ret |-> TRUE]
         ELSE [s |-> [s EXCEPT !.count = s.count + 1], ret |-> FALSE]
    ELSE [s |-> [s EXCEPT !.count = 0], ret |-> FALSE]

\* ServiceWrapper::update_last_status_condition: the wrapper after the call
\* (s) and the returned bool (ret)
update_last_status_condition(s, last_status, condition) ==
    IF s.last_status # last_status
    THEN IF s.count >= condition
         THEN [s |-> [s EXCEPT !.last_status = last_status, !.count = 0],
               ret |-> TRUE]
         ELSE [s |-> [s EXCEPT !.count = s.count + 1], ret |-> FALSE]
    ELSE [s |-> [s EXCEPT !.count = 0], ret |-> FALSE]

\* Mutant of skip_service: forgets that the first sub-round probes all.
skip_whenever_idle(times_, s) == ~ongoing_recheck(s)

\* main.rs:55  if times > 0 && !service.ongoing_recheck() { continue; }
skip_service(times_, s) == times_ > 0 /\ ~ongoing_recheck(s)

\* ---------------------------------------------------------- the probes
\* A probe's return value is "ok_true", "ok_false", "err_elapsed" (an Err
\* holding tokio::time::error::Elapsed) or "err_other"; net is what the
\* network does during the probe.
ProbeKinds == {"HTTP", "SSH", "TeamSpeak", "Tcping"}

\* connlib.rs:62-81  TeamSpeak::ping
TeamSpeakPing(net) ==
    IF net \in {"bind_fail", "send_fail"} THEN "err_other"
    ELSE IF net = "timeout" THEN "err_elapsed"
    ELSE IF net = "recv_err" THEN "ok_false"
    ELSE IF net = "reply" THEN "ok_true"
    ELSE "ok_false"

\* connlib.rs:105-129  SSH::ping: the timeouts of connect and write_all go
\* through ?, the one of read does not; an io error leaves the if let
SSHPing(net) ==
    IF net \in {"timeout", "write_timeout"} THEN "err_elapsed"
    ELSE IF net \in {"refused", "reset", "aborted", "other_io", "write_err"}
    THEN "ok_false"
    ELSE IF net \in {"read_timeout", "read_err"} THEN "ok_false"
    ELSE IF net = "banner_ssh" THEN "ok_true"
    ELSE "ok_false"

\* connlib.rs:150-167  HTTP::ping
HTTPPing(net) ==
    IF net = "build_fail" THEN "err_other"
    ELSE IF net = "status_2xx" THEN "ok_true"
    ELSE IF net = "status_other" THEN "ok_false"
    ELSE IF net = "timeout" THEN "ok_false"
    ELSE "err_other"

\* connlib.rs:188-208  Tcping::ping
TcpingPing(net) ==
    IF net = "connected" THEN "ok_true"
    ELSE IF net = "timeout" THEN "err_elapsed"
    ELSE IF net \in {"refused", "reset", "aborted"} THEN "ok_false"
    ELSE "err_other"

\* what the network can do to a probe of each kind
NetEvents(kind) ==
    IF kind = "TeamSpeak"
    THEN {"bind_fail", "send_fail", "timeout", "recv_err", "reply",
          "reply_empty"}
    ELSE IF kind = "SSH"
    THEN {"timeout", "write_timeout", "refused", "reset", "aborted",
          "other_io", "write_err", "read_timeout", "read_err",
          "banner_ssh", "banner_other"}
    ELSE IF kind = "HTTP"
    THEN {"build_fail", "status_2xx", "status_other", "timeout", "refused",
          "tls_error"}
    ELSE {"connected", "timeout", "refused", "reset", "aborted", "other_io"}

\* connlib.rs:404-414  the match on service.service_type()
ProbePing(kind, net) ==
    IF kind = "HTTP" THEN HTTPPing(net)
    ELSE IF kind = "SSH" THEN SSHPing(net)
    ELSE IF kind = "TeamSpeak" THEN TeamSpeakPing(net)
    ELSE TcpingPing(net)

\* PingAbleService::ping with an Err other than Elapsed handed on
PingResult_err_counts(ret) == ret \in {"ok_true", "err_other"}

\* connlib.rs:415-422  PingAbleService::ping: Ok(ret) => ret, every Err
\* => false
PingResult(ret) == ret = "ok_true"

\* ServiceWrapper::ping: one bool per address, in order
ServiceWrapperPing(services_) ==
    [i \in DOMAIN services_ |->
        PingResult(ProbePing(services_[i].kind, services_[i].net))]

\* ------------------------------------------------------------- variables
VARIABLES
    retries,      \* config.retries_times().unwrap_or(3)
    interval,     \* config.interval().unwrap_or(0): 0, or 1 for nonzero
    services,     \* Configure.services: Vec<ServiceWrapper>
    lock,         \* holder of Arc<Mutex<Configure>>: "free" or "main"
    pc,           \* position of the scheduler task (main_future)
    times,        \* loop variable of  for times in 0..retries
    idx,          \* position of  for service in config.mut_services()
    proc,         \* process: "running", "exit_ok", "exit_err"
    cpc,          \* position of the cache writer task (save_cache_task)
    signalled,    \* tokio::signal::ctrl_c() has completed
    probed,       \* history: services pinged in the current sub-round
    skipped,      \* history: services skipped in the current sub-round
    due,          \* history: services in ongoing recheck when reached
    applied,      \* history: results applied to each service this cycle
    disagreed,    \* history: of these, candidates # last_status when applied
    start_status, \* history: last_status of each service at cycle start
    events,       \* history: confirmed changes of this cycle
    calls,        \* history: set_component_status calls of this cycle
    sw,           \* TrackerSpec: the ServiceWrapper under test
    condition,    \* TrackerSpec: the condition argument
    hist,         \* TrackerSpec: the applications made so far
    vec,          \* DeriveSpec: the Vec<bool> being built
    derived,      \* DeriveSpec: ServerLastStatus::from(vec), or "none"
    addrs,        \* ProbeSpec: the addresses of a service and their network
    rets,         \* ProbeSpec history: what each probe returned
    machines,     \* WebSpec: table "machines", uuid -> status
    uploads,      \* WebSpec history: statuses handed to the reporter
    response,     \* WebSpec history: the last POST and its response
    cfg,          \* BootSpec: the configured components (TomlConfigure)
    remote,       \* BootSpec: upstream's answer to get_component_status
    fetched,      \* BootSpec history: ids asked from the upstream
    creg,         \* CacheSpec: id and last_status of the configured services
    cfile,        \* CacheSpec: content of the cache file
    now,          \* CacheSpec: get_current_timestamp()
    cread         \* outcome of the last read_cache, NoRead before it

sched_vars == <<retries, interval, services, lock, pc, times, idx, proc,
               cpc, signalled>>
hist_vars == <<probed, skipped, due, applied, disagreed, start_status,
               events, calls>>
tracker_vars == <<sw, condition, hist>>
derive_vars == <<vec, derived, addrs, rets>>
cache_vars == <<creg, cfile, now, cread, cfg, remote, fetched>>
web_vars == <<machines, uploads, response>>
vars == <<sched_vars, hist_vars, tracker_vars, derive_vars, cache_vars,
          web_vars>>

NumServices == Len(services)
ServiceIds == 1..NumServices

\* ServiceWrapper::new: count starts at 0.  The address list is kept by its
\* length, which is all ServiceWrapper::ping's result depends on.
ServiceWrapperNew(naddr, last_status, identify_id, page) ==
    [last_status |-> last_status, naddr |-> naddr,
     report_uuid |-> identify_id, page |-> page, count |-> 0]

\* Values the parts of the model not exercised by a specification rest at.
TrackerIdle ==
    /\ sw = [last_status |-> "Unknown", count |-> 0]
    /\ condition = 0
    /\ hist = <<>>

\* the value of the POST history before any request
NoResponse == [uuid |-> "", status |-> "", code |-> 0, updated |-> FALSE]

WebIdle == machines = <<>> /\ uploads = {} /\ response = NoResponse

ProbeIdle == addrs = <<>> /\ rets = <<>>

DeriveIdle == vec = <<>> /\ derived = "none" /\ ProbeIdle

BootIdle == cfg = <<>> /\ remote = <<>> /\ fetched = {}

CacheIdle ==
    /\ creg = <<>> /\ cfile = NoFile /\ now = 0 /\ cread = NoRead
    /\ BootIdle

SchedulerIdle ==
    /\ retries = 0 /\ interval = 0 /\ services = <<>> /\ lock = "free"
    /\ pc = "off" /\ times = 0 /\ idx = 1 /\ proc = "off" /\ cpc = "off"
    /\ signalled = FALSE
    /\ probed = {} /\ skipped = {} /\ due = {}
    /\ applied = <<>> /\ disagreed = <<>>
    /\ start_status = <<>> /\ events = <<>> /\ calls = <<>>

\* -------------------------------------------------------- the scheduler
\* Spec follows the scheduler task alone (cpc = "off").  The cache writer
\* never writes the services, takes and drops the lock within one step and
\* otherwise can only end the process, which select_ctrl_c does from every
\* state; AgentSpec below runs both tasks.
\* async_main up to the spawn of main_future: the configuration is resolved
\* (Configure::try_from) and every wrapper starts with count 0.
Init ==
    /\ retries \in 0..MaxRetries
    /\ interval \in {0, 1}
    /\ \E n \in 1..MaxServices :
         \E na \in [1..n -> 0..MaxAddr], st \in [1..n -> InitStatuses] :
            services = [i \in 1..n |->
                ServiceWrapperNew(na[i], st[i],
                                  IF i = 1 THEN "c1" ELSE IF i = 2 THEN "c2" ELSE "c3",
                                  IF i = 1 THEN "p1" ELSE IF i = 2 THEN "p2" ELSE "p3")]
    /\ lock = "free"
    /\ pc = "spawned"
    /\ times = 0
    /\ idx = 1
    /\ proc = "running"
    /\ cpc = "off"
    /\ signalled = FALSE
    /\ probed = {} /\ skipped = {} /\ due = {}
    /\ applied = [i \in ServiceIds |-> 0]
    /\ disagreed = [i \in ServiceIds |-> 0]
    /\ start_status = [i \in ServiceIds |-> services[i].last_status]
    /\ events = <<>>
    /\ calls = <<>>
    /\ TrackerIdle
    /\ WebIdle
    /\ DeriveIdle
    /\ CacheIdle

\* main.rs:50  let mut config = rw_config.lock().await;  entry of main_work
main_work_lock ==
    /\ proc = "running" /\ pc = "spawned" /\ lock = "free"
    /\ lock' = "main"
    /\ pc' = "loop"
    /\ times' = 0
    /\ idx' = 1
    /\ probed' = {} /\ skipped' = {} /\ due' = {}
    /\ applied' = [i \in ServiceIds |-> 0]
    /\ disagreed' = [i \in ServiceIds |-> 0]
    /\ start_status' = [i \in ServiceIds |-> services[i].last_status]
    /\ events' = <<>>
    /\ calls' = <<>>
    /\ UNCHANGED <<signalled, cpc, retries, interval, services, proc, tracker_vars, web_vars, derive_vars, cache_vars>>

\* main.rs:55-57  the service is not in ongoing recheck: continue
loop_skip ==
    /\ proc = "running" /\ pc = "loop"
    /\ times < retries /\ idx <= NumServices
    /\ skip_service(times, services[idx])
    /\ idx' = idx + 1
    /\ skipped' = skipped \cup {idx}
    /\ UNCHANGED <<signalled, cpc, retries, interval, services, lock, pc, times, proc,
                   probed, due, applied, disagreed, start_status, events, calls,
                   tracker_vars, web_vars, derive_vars, cache_vars>>

\* the condition one short of retries - 1
confirm_condition_short(retries_) == IF retries_ > 1 THEN retries_ - 2 ELSE 0

\* main.rs:61  the condition argument: retries - 1
confirm_condition(retries_) == retries_ - 1

\* main.rs:58  service.ping(DEFAULT_PING_TIMEOUT) is started and awaited
ping_start ==
    /\ proc = "running" /\ pc = "loop"
    /\ times < retries /\ idx <= NumServices
    /\ ~skip_service(times, services[idx])
    /\ pc' = "ping"
    /\ probed' = probed \cup {idx}
    /\ due' = IF ongoing_recheck(services[idx]) THEN due \cup {idx} ELSE due
    /\ UNCHANGED <<signalled, cpc, retries, interval, services, lock, times, idx, proc,
                   skipped, applied, disagreed, start_status, events, calls,
                   tracker_vars, web_vars, derive_vars, cache_vars>>

\* main.rs:58-67  the ping returns v; the candidate is derived and applied;
\* on a confirmed change the status is converted (panic on Unknown) and
\* set_component_status is called
ping_apply ==
    /\ proc = "running" /\ pc = "ping"
    /\ \E v \in BoolVecs(services[idx].naddr) :
         LET result == ServerLastStatusFromVec(v)
             r == update_last_status_condition(services[idx], result,
                                               confirm_condition(retries))
             status == ComponentStatusFrom(r.s.last_status)
         IN  /\ services' = [services EXCEPT ![idx] = r.s]
             /\ applied' = [applied EXCEPT ![idx] = @ + 1]
             /\ disagreed' = [disagreed EXCEPT ![idx] =
                    IF result # services[idx].last_status THEN @ + 1 ELSE @]
             /\ IF r.ret
                THEN /\ events' = Append(events, [service |-> idx, status |-> result])
                     /\ IF status = "panic"
                        THEN /\ pc' = "panicked"
                             /\ lock' = "free"
                             /\ calls' = calls
                        ELSE /\ pc' = "report"
                             /\ lock' = lock
                             /\ calls' = Append(calls,
                                    [service |-> idx,
                                     component |-> r.s.report_uuid,
                                     page |-> r.s.page,
                                     status |-> status,
                                     result |-> "pending"])
                     /\ idx' = idx
                ELSE /\ events' = events
                     /\ calls' = calls
                     /\ pc' = "loop"
                     /\ lock' = lock
                     /\ idx' = idx + 1
    /\ UNCHANGED <<signalled, cpc, retries, interval, times, proc, probed, skipped, due,
                   start_status, tracker_vars, web_vars, derive_vars, cache_vars>>

\* main.rs:62-69  set_component_status returned Ok
report_ok ==
    /\ proc = "running" /\ pc = "report"
    /\ calls' = [calls EXCEPT ![Len(calls)].result = "ok"]
    /\ pc' = "loop"
    /\ idx' = idx + 1
    /\ UNCHANGED <<signalled, cpc, retries, interval, services, lock, times, proc, probed,
                   skipped, due, applied, disagreed, start_status, events,
                   tracker_vars, web_vars, derive_vars, cache_vars>>

\* main.rs:68  .await?  set_component_status returned Err: main_work returns
\* the error at once, dropping the guard
report_err ==
    /\ proc = "running" /\ pc = "report"
    /\ calls' = [calls EXCEPT ![Len(calls)].result = "err"]
    /\ pc' = "failed"
    /\ lock' = "free"
    /\ UNCHANGED <<signalled, cpc, retries, interval, services, times, idx, proc, probed,
                   skipped, due, applied, disagreed, start_status, events,
                   tracker_vars, web_vars, derive_vars, cache_vars>>

\* the inner loop left one service early
round_finished_early(i, n) == i >= n

\* main.rs:54-71  for service in config.mut_services(): the iterator is
\* exhausted once the body has run for every service
round_finished(i, n) == i > n

\* main.rs:72  end of the inner loop: sleep(retries_interval) begins
sub_round_sleep ==
    /\ proc = "running" /\ pc = "loop"
    /\ times < retries /\ round_finished(idx, NumServices)
    /\ pc' = "sleep"
    /\ UNCHANGED <<signalled, cpc, retries, interval, services, lock, times, idx, proc,
                   hist_vars, tracker_vars, web_vars, derive_vars, cache_vars>>

\* main.rs:72-53  the sleep is over: next value of times
sleep_done ==
    /\ proc = "running" /\ pc = "sleep"
    /\ times' = times + 1
    /\ idx' = 1
    /\ pc' = "loop"
    /\ probed' = {} /\ skipped' = {} /\ due' = {}
    /\ UNCHANGED <<signalled, cpc, retries, interval, services, lock, proc, applied,
                   disagreed, start_status, events, calls,
                   tracker_vars, web_vars, derive_vars, cache_vars>>

\* main.rs:74-77  after the loop: reset_count on every service, Ok(()); then
\* main.rs:129-137  the task ends (interval == 0) or sleeps for interval
main_work_return ==
    /\ proc = "running" /\ pc = "loop"
    /\ times >= retries
    /\ services' = [i \in ServiceIds |-> reset_count(services[i])]
    /\ lock' = "free"
    /\ pc' = IF interval = 0 THEN "done" ELSE "interval"
    /\ UNCHANGED <<signalled, cpc, retries, interval, times, idx, proc, hist_vars,
                   tracker_vars, web_vars, derive_vars, cache_vars>>

\* main.rs:135-134  sleep(interval) is over: the loop calls main_work again
interval_done ==
    /\ proc = "running" /\ pc = "interval"
    /\ pc' = "spawned"
    /\ UNCHANGED <<signalled, cpc, retries, interval, services, lock, times, idx, proc,
                   hist_vars, tracker_vars, web_vars, derive_vars, cache_vars>>

\* async_main returns and the runtime is dropped with everything it owns:
\* the tasks, the Configure and its services
process_exit(code) ==
    /\ proc' = code
    /\ retries' = 0 /\ interval' = 0 /\ services' = <<>> /\ lock' = "free"
    /\ pc' = "off" /\ times' = 0 /\ idx' = 1 /\ cpc' = "off"
    /\ probed' = {} /\ skipped' = {} /\ due' = {}
    /\ applied' = <<>> /\ disagreed' = <<>>
    /\ start_status' = <<>> /\ events' = <<>> /\ calls' = <<>>
    /\ UNCHANGED <<tracker_vars, web_vars, derive_vars, cache_vars>>

\* main.rs:151  select!: main_future completed; ret?? propagates a panic
\* (JoinError) or main_work's Err, otherwise async_main returns Ok(())
select_main_future ==
    /\ proc = "running" /\ pc \in {"done", "failed", "panicked"}
    /\ process_exit(IF pc = "done" THEN "exit_ok" ELSE "exit_err")
    /\ UNCHANGED signalled

\* the snapshot built by moving the services out of the Configure
services_drained(svcs) == <<>>

\* cache.rs:121-133  CacheData::from_configure(config: &Configure) reads
\* the services through a shared reference: the services after the call
services_after_snapshot(svcs) == svcs

\* the guard of save_cache_file kept until the function returns
guard_until_return == "cache"

\* main.rs:81-84  the guard lives in the block that builds the snapshot and
\* is dropped at its end: the holder of the lock after the block
guard_after_snapshot == "free"

\* main.rs:145 and 81-84  interval.tick() has completed (at once the first
\* time, every DEFAULT_CACHE_WRITE_INTERVAL seconds afterwards) and
\* config.lock() is granted: CacheData::from_configure copies the state
cache_snapshot ==
    /\ proc = "running" /\ cpc = "wait" /\ lock = "free"
    /\ lock' = guard_after_snapshot
    /\ cpc' = "io"
    /\ services' = services_after_snapshot(services)
    /\ UNCHANGED <<signalled, retries, interval, pc, times, idx, proc,
                   hist_vars, tracker_vars, web_vars, derive_vars, cache_vars>>

\* main.rs:85-91  serde_json::to_string and tokio::fs::write succeed;
\* save_cache_file returns Ok and the loop awaits the next tick
cache_write_ok ==
    /\ proc = "running" /\ cpc = "io"
    /\ cpc' = "wait"
    /\ lock' = IF lock = "cache" THEN "free" ELSE lock
    /\ UNCHANGED <<signalled, retries, interval, services, pc, times, idx, proc,
                   hist_vars, tracker_vars, web_vars, derive_vars, cache_vars>>

\* main.rs:86-87, 91 and 146  serialization or the write fails:
\* save_cache_file returns Err and  .await?  ends the task with it
cache_write_err ==
    /\ proc = "running" /\ cpc = "io"
    /\ cpc' = "failed"
    /\ lock' = IF lock = "cache" THEN "free" ELSE lock
    /\ UNCHANGED <<signalled, retries, interval, services, pc, times, idx, proc,
                   hist_vars, tracker_vars, web_vars, derive_vars, cache_vars>>

\* main.rs:152  select!: save_cache_task completed, which it only does with
\* an Err; ret?? makes async_main return it
select_save_cache_task ==
    /\ proc = "running" /\ cpc = "failed"
    /\ process_exit("exit_err")
    /\ UNCHANGED signalled

\* main.rs:150  select!: ctrl_c
select_ctrl_c ==
    /\ proc = "running"
    /\ process_exit("exit_ok")
    /\ signalled' = TRUE

Next ==
    \/ main_work_lock
    \/ loop_skip
    \/ ping_start
    \/ ping_apply
    \/ report_ok
    \/ report_err
    \/ sub_round_sleep
    \/ sleep_done
    \/ main_work_return
    \/ interval_done
    \/ select_main_future
    \/ select_ctrl_c

Spec == Init /\ [][Next]_vars

\* ------------------------------------------------------------ the agent
\* async_main at select!: both tasks are spawned.  Every component has one
\* address and the status the upstream gave for it at startup.
InitAgent ==
    /\ retries \in 0..MaxRetries
    /\ interval \in {0, 1}
    /\ \E n \in 1..MaxServices :
         \E st \in [1..n -> {"Optional", "Outage"}] :
            services = [i \in 1..n |->
                ServiceWrapperNew(1, st[i],
                                  IF i = 1 THEN "c1" ELSE IF i = 2 THEN "c2" ELSE "c3",
                                  IF i = 1 THEN "p1" ELSE IF i = 2 THEN "p2" ELSE "p3")]
    /\ lock = "free"
    /\ pc = "spawned"
    /\ times = 0
    /\ idx = 1
    /\ proc = "running"
    /\ cpc = "wait"
    /\ signalled = FALSE
    /\ probed = {} /\ skipped = {} /\ due = {}
    /\ applied = [i \in ServiceIds |-> 0]
    /\ disagreed = [i \in ServiceIds |-> 0]
    /\ start_status = [i \in ServiceIds |-> services[i].last_status]
    /\ events = <<>>
    /\ calls = <<>>
    /\ TrackerIdle
    /\ WebIdle
    /\ DeriveIdle
    /\ CacheIdle

NextAgent ==
    \/ main_work_lock
    \/ loop_skip
    \/ ping_start
    \/ ping_apply
    \/ report_ok
    \/ report_err
    \/ sub_round_sleep
    \/ sleep_done
    \/ main_work_return
    \/ interval_done
    \/ cache_snapshot
    \/ cache_write_ok
    \/ cache_write_err
    \/ select_main_future
    \/ select_save_cache_task
    \/ select_ctrl_c

AgentSpec == InitAgent /\ [][NextAgent]_vars

\* The agent in repeating mode under the scheduling the runtime gives it:
\* timers fire, probes, reporter calls and file writes return, a ready task
\* is polled (weak fairness of each step), and tokio's Mutex grants the
\* lock in FIFO order, so that a task that keeps asking for it gets it
\* (strong fairness of the two acquisitions).  ctrl_c may never come.
InitFairAgent == InitAgent /\ interval # 0

FairAgentSpec ==
    /\ InitFairAgent
    /\ [][NextAgent]_vars
    /\ SF_vars(main_work_lock)
    /\ SF_vars(cache_snapshot)
    /\ WF_vars(loop_skip)
    /\ WF_vars(ping_start)
    /\ WF_vars(ping_apply)
    /\ WF_vars(report_ok \/ report_err)
    /\ WF_vars(sub_round_sleep)
    /\ WF_vars(sleep_done)
    /\ WF_vars(main_work_return)
    /\ WF_vars(interval_done)
    /\ WF_vars(cache_write_ok \/ cache_write_err)
    /\ WF_vars(select_main_future)
    /\ WF_vars(select_save_cache_task)


\* ------------------------------------------------- one ServiceWrapper
\* A wrapper in any state the tracker allows, and a condition argument
InitTracker ==
    /\ \E c \in 0..MaxThreshold :
         /\ condition = c
         /\ sw \in [last_status : ServerLastStatus, count : 0..c]
    /\ hist = <<>>
    /\ SchedulerIdle
    /\ DeriveIdle
    /\ CacheIdle
    /\ WebIdle

\* one call  service.update_last_status_condition(last_status, condition)
tracker_apply(last_status) ==
    /\ Len(hist) < MaxRounds
    /\ LET r == update_last_status_condition(sw, last_status, condition)
       IN  /\ sw' = r.s
           /\ hist' = Append(hist, [before |-> sw, cand |-> last_status,
                                    ret |-> r.ret, after |-> r.s])
    /\ UNCHANGED <<condition, sched_vars, hist_vars, derive_vars, cache_vars,
                   web_vars>>

NextTracker == \E last_status \in ServerLastStatus : tracker_apply(last_status)

TrackerSpec == InitTracker /\ [][NextTracker]_vars

\* ------------------------------------------------- status derivation
InitDerive ==
    /\ vec = <<>>
    /\ derived = "none"
    /\ ProbeIdle
    /\ SchedulerIdle
    /\ TrackerIdle
    /\ WebIdle
    /\ CacheIdle

\* v.push(element.await.unwrap()) of ServiceWrapper::ping
derive_push(b) ==
    /\ Len(vec) < MaxVecLen
    /\ vec' = Append(vec, b)
    /\ derived' = "none"
    /\ UNCHANGED <<addrs, rets, sched_vars, hist_vars, tracker_vars, web_vars,
                   cache_vars>>

\* ServerLastStatus::from(result)
derive_from ==
    /\ derived = "none"
    /\ derived' = ServerLastStatusFromVec(vec)
    /\ UNCHANGED <<vec, addrs, rets, sched_vars, hist_vars, tracker_vars, web_vars,
                   cache_vars>>

NextDerive == (\E b \in BOOLEAN : derive_push(b)) \/ derive_from

DeriveSpec == InitDerive /\ [][NextDerive]_vars

\* ------------------------------------------- one ServiceWrapper::ping
InitProbe ==
    /\ addrs = <<>>
    /\ rets = <<>>
    /\ vec = <<>>
    /\ derived = "none"
    /\ SchedulerIdle
    /\ TrackerIdle
    /\ WebIdle
    /\ CacheIdle

\* one more address in the service's list, and what its probe will meet
probe_address(kind, net) ==
    /\ derived = "none"
    /\ Len(addrs) <= MaxAddr
    /\ addrs' = Append(addrs, [kind |-> kind, net |-> net])
    /\ UNCHANGED <<vec, derived, rets, sched_vars, hist_vars, tracker_vars, web_vars,
                   cache_vars>>

\* main.rs:58-59  service.ping(DEFAULT_PING_TIMEOUT).await and
\* ServerLastStatus::from(result)
service_ping ==
    /\ derived = "none"
    /\ rets' = [i \in DOMAIN addrs |-> ProbePing(addrs[i].kind, addrs[i].net)]
    /\ vec' = ServiceWrapperPing(addrs)
    /\ derived' = ServerLastStatusFromVec(ServiceWrapperPing(addrs))
    /\ UNCHANGED <<addrs, sched_vars, hist_vars, tracker_vars, web_vars, cache_vars>>

NextProbe ==
    \/ \E kind \in ProbeKinds : \E net \in NetEvents(kind) :
          probe_address(kind, net)
    \/ service_ping

ProbeSpec == InitProbe /\ [][NextProbe]_vars

\* ------------------------------------------------------ the cache file
\* Clock readings: the start, and 1, DEADLINE and DEADLINE + 1 seconds later
StartTime == 1000
ClockReadings == {StartTime + e : e \in {0, 1, DEADLINE, DEADLINE + 1}}

\* Files found at startup: none, an unreadable one, and headers of every
\* version and age around the deadline, also from a clock ahead of ours
GivenFiles ==
    {NoFile, [NoFile EXCEPT !.kind = "malformed"]} \cup
    [kind : {"header_only", "snapshot"},
     version : {CURRENT_VERSION - 1, CURRENT_VERSION, CURRENT_VERSION + 1},
     timestamp : {StartTime - DEADLINE - 1, StartTime - DEADLINE,
                  StartTime, StartTime + 1},
     body : {<<>>, <<[id |-> "c1", last_status |-> "major_outage"]>>},
     origin : {"given"}]

InitCache ==
    /\ \E n \in 1..MaxServices : \E st \in [1..n -> ServerLastStatus] :
          creg = [i \in 1..n |->
                    [report_uuid |-> IF i = 1 THEN "c1"
                                     ELSE IF i = 2 THEN "c2" ELSE "c3",
                     last_status |-> st[i]]]
    /\ cfile \in GivenFiles
    /\ now = StartTime
    /\ cread = NoRead
    /\ BootIdle
    /\ SchedulerIdle
    /\ TrackerIdle
    /\ WebIdle
    /\ DeriveIdle

\* time passes
clock_advance ==
    /\ \E t \in ClockReadings : t > now /\ now' = t
    /\ UNCHANGED <<creg, cfile, cread, cfg, remote, fetched, sched_vars,
                   hist_vars, tracker_vars, web_vars, derive_vars>>

\* save_cache_file succeeding: snapshot, serialize, tokio::fs::write
cache_write ==
    /\ cfile' = CacheDataFromConfigure(creg, now)
    /\ UNCHANGED <<creg, now, cread, cfg, remote, fetched, sched_vars,
                   hist_vars, tracker_vars, web_vars, derive_vars>>

\* read_cache(path) at the current time
cache_read ==
    /\ \E r \in read_cache(cfile, now) :
          cread' = [tag |-> r.tag, data |-> r.data, file |-> cfile, at |-> now]
    /\ UNCHANGED <<creg, cfile, now, cfg, remote, fetched, sched_vars,
                   hist_vars, tracker_vars, web_vars, derive_vars>>

NextCache == clock_advance \/ cache_write \/ cache_read

CacheSpec == InitCache /\ [][NextCache]_vars

\* --------------------------------------------------------- the startup
\* A configured component is kept by its id, page, number of addresses and
\* form: "ok", "no_bar" (an address without '|' or an element that is not
\* a string, refused by TryInto<Vec<Service>>) or "bad_type" (a service
\* type that PingAbleService::try_from does not know).
\* the Err of an anyhow::Result<ServiceWrapper>
ErrService == ServiceWrapperNew(0, "Err", "", "")

\* ServiceWrapper::new_with_last_status
new_with_last_status(component, last_status) ==
    IF component.form = "bad_type" THEN ErrService
    ELSE ServiceWrapperNew(component.naddr, last_status,
                           component.report_uuid, component.page)

\* ServiceWrapper::from_service: the upstream is asked for the component's
\* status; "error" is a request or a body that fails (Err)
from_service(answer, component) ==
    IF answer = "error" THEN ErrService
    ELSE new_with_last_status(component,
                              ServerLastStatusFromComponent(answer))

\* Configure::try_from: the services in configuration order, each from its
\* cache entry if there is one and from the upstream otherwise.  A
\* component that TryInto<Component> refuses makes try_from return the Err
\* (configure.rs:69); any other Err is unwrapped, which panics
\* (configure.rs:81).  fetched is the ids asked from the upstream until
\* then.
ConfigureTryFrom(value, cache, answers) ==
    LET cache_data == convert_cache_vec_to_map(cache)
        cached(i) == value[i].report_uuid \in DOMAIN cache_data
        wrapper(i) ==
            IF cached(i)
            THEN new_with_last_status(value[i],
                                      cache_data[value[i].report_uuid])
            ELSE from_service(answers[value[i].report_uuid], value[i])
        refused == {i \in DOMAIN value : value[i].form = "no_bar"}
        failing == {i \in DOMAIN value :
                      i \in refused \/ wrapper(i) = ErrService}
        stop == IF failing = {} THEN Len(value)
                ELSE CHOOSE i \in failing : \A j \in failing : i <= j
    IN  [panic |-> failing # {} /\ stop \notin refused,
         err |-> failing # {} /\ stop \in refused,
         fetched |-> {value[i].report_uuid :
                         i \in {j \in 1..stop :
                                  ~cached(j) /\ j \notin refused}},
         services |->
            IF failing # {} THEN <<>>
            ELSE [i \in DOMAIN value |-> wrapper(i)]]

\* Cache files met at startup: none, unreadable, of another version, too
\* old, fresh, fresh with a broken body, and from a clock ahead of ours
BootFiles ==
    {f \in GivenFiles :
        \/ f.kind \in {"missing", "malformed"}
        \/ /\ f.body # <<>>
           /\ \/ f.kind = "snapshot" /\ f.version = CURRENT_VERSION
              \/ f.version = CURRENT_VERSION + 1 /\ f.timestamp = StartTime
              \/ f.kind = "header_only" /\ f.version = CURRENT_VERSION
                    /\ f.timestamp = StartTime}

ConfigIds(n) == {IF i = 1 THEN "c1" ELSE IF i = 2 THEN "c2" ELSE "c3" : i \in 1..n}

\* async_main at main.rs:109, before read_cache: the configuration file is
\* loaded, the services list is not empty, retries_times is at least 1
InitBoot ==
    /\ retries \in 1..MaxRetries
    /\ interval = 0
    /\ \E n \in 1..MaxServices : \E na \in [1..n -> 0..MaxAddr] :
          /\ cfg = [i \in 1..n |->
                      [report_uuid |-> IF i = 1 THEN "c1"
                                       ELSE IF i = 2 THEN "c2" ELSE "c3",
                       naddr |-> na[i],
                       form |-> "ok",
                       page |-> IF i = 1 THEN "p1"
                                ELSE IF i = 2 THEN "p2" ELSE "p3"]]
          /\ remote \in [ConfigIds(n) -> {"operational", "major_outage", "error"}]
    /\ cfile \in BootFiles
    /\ now = StartTime
    /\ cread = NoRead
    /\ fetched = {}
    /\ creg = <<>>
    /\ services = <<>>
    /\ lock = "free"
    /\ pc = "start"
    /\ times = 0
    /\ idx = 1
    /\ proc = "running"
    /\ cpc = "off"
    /\ signalled = FALSE
    /\ probed = {} /\ skipped = {} /\ due = {}
    /\ applied = <<>> /\ disagreed = <<>>
    /\ start_status = <<>> /\ events = <<>> /\ calls = <<>>
    /\ TrackerIdle
    /\ WebIdle
    /\ DeriveIdle

\* main.rs:109  let cache = read_cache(&cache_file).await;
boot_read_cache ==
    /\ proc = "running" /\ pc = "start"
    /\ \E r \in read_cache(cfile, now) :
          /\ cread' = [tag |-> r.tag, data |-> r.data, file |-> cfile,
                       at |-> now]
          /\ pc' = IF r.tag = "panic" THEN "panicked" ELSE "configure"
    /\ UNCHANGED <<signalled, cpc, retries, interval, services, lock, times, idx, proc,
                   hist_vars, tracker_vars, web_vars, derive_vars, creg, cfile, now,
                   cfg, remote, fetched>>

\* main.rs:111-119  Configure::try_from(config, cache.ok()).await?  and
\* main.rs:129  the scheduler task is spawned
boot_configure ==
    /\ proc = "running" /\ pc = "configure"
    /\ LET c == ConfigureTryFrom(cfg, cache_option(cread), remote)
       IN  /\ fetched' = c.fetched
           /\ services' = c.services
           /\ pc' = IF c.panic THEN "panicked"
                    ELSE IF c.err THEN "failed" ELSE "spawned"
           /\ applied' = [i \in DOMAIN c.services |-> 0]
           /\ disagreed' = [i \in DOMAIN c.services |-> 0]
           /\ start_status' = [i \in DOMAIN c.services |->
                                  c.services[i].last_status]
    /\ UNCHANGED <<signalled, cpc, retries, interval, lock, times, idx, proc, probed,
                   skipped, due, events, calls, tracker_vars, web_vars, derive_vars,
                   creg, cfile, now, cread, cfg, remote>>

\* the startup and the first sub-round of the first cycle
NextBoot ==
    \/ boot_read_cache
    \/ boot_configure
    \/ main_work_lock
    \/ ping_start
    \/ ping_apply
    \/ report_ok
    \/ report_err
    \/ sub_round_sleep

BootSpec == InitBoot /\ [][NextBoot]_vars

\* ------------------------------------------- loading a configuration
\* async_main at main.rs:109 with a configuration whose components may be
\* malformed; every component has one address to probe
InitLoad ==
    /\ retries = 1
    /\ interval = 0
    /\ \E n \in 1..MaxServices :
          \E fm \in [1..n -> {"ok", "no_bar", "bad_type"}] :
          /\ cfg = [i \in 1..n |->
                      [report_uuid |-> IF i = 1 THEN "c1"
                                       ELSE IF i = 2 THEN "c2" ELSE "c3",
                       naddr |-> 1,
                       form |-> fm[i],
                       page |-> IF i = 1 THEN "p1"
                                ELSE IF i = 2 THEN "p2" ELSE "p3"]]
          /\ remote \in [ConfigIds(n) -> {"operational", "major_outage"}]
    /\ cfile \in {f \in BootFiles : f.timestamp \in {0, StartTime}}
    /\ now = StartTime
    /\ cread = NoRead
    /\ fetched = {}
    /\ creg = <<>>
    /\ services = <<>>
    /\ lock = "free"
    /\ pc = "start"
    /\ times = 0
    /\ idx = 1
    /\ proc = "running"
    /\ cpc = "off"
    /\ signalled = FALSE
    /\ probed = {} /\ skipped = {} /\ due = {}
    /\ applied = <<>> /\ disagreed = <<>>
    /\ start_status = <<>> /\ events = <<>> /\ calls = <<>>
    /\ TrackerIdle
    /\ WebIdle
    /\ DeriveIdle

NextLoad == boot_read_cache \/ boot_configure

LoadSpec == InitLoad /\ [][NextLoad]_vars

\* ------------------------------------------- the initial statuses
\* Entries a snapshot may hold: of configured components and of one that
\* is not configured, with status strings the agent writes
CacheEntries ==
    [id : {"c1", "c2", "cx"},
     last_status : {"operational", "partial_outage", "unknown"}]

\* Cache files met at startup: none, and snapshots of the current version,
\* fresh or outdated, of up to two entries
StartFiles ==
    {NoFile} \cup
    [kind : {"snapshot"},
     version : {CURRENT_VERSION},
     timestamp : {StartTime - DEADLINE - 1, StartTime},
     body : {<<>>} \cup {<<e>> : e \in CacheEntries}
                   \cup {<<d, e>> : d, e \in CacheEntries},
     origin : {"given"}]

\* async_main at main.rs:109 with a well-formed configuration and an
\* upstream that answers with any component status or fails
InitStart ==
    /\ retries = 1
    /\ interval = 0
    /\ \E n \in 1..MaxServices :
          /\ cfg = [i \in 1..n |->
                      [report_uuid |-> IF i = 1 THEN "c1"
                                       ELSE IF i = 2 THEN "c2" ELSE "c3",
                       naddr |-> 1,
                       form |-> "ok",
                       page |-> IF i = 1 THEN "p1"
                                ELSE IF i = 2 THEN "p2" ELSE "p3"]]
          /\ remote \in [ConfigIds(n) -> ComponentStatus \cup {"error"}]
    /\ cfile \in StartFiles
    /\ now = StartTime
    /\ cread = NoRead
    /\ fetched = {}
    /\ creg = <<>>
    /\ services = <<>>
    /\ lock = "free"
    /\ pc = "start"
    /\ times = 0
    /\ idx = 1
    /\ proc = "running"
    /\ cpc = "off"
    /\ signalled = FALSE
    /\ probed = {} /\ skipped = {} /\ due = {}
    /\ applied = <<>> /\ disagreed = <<>>
    /\ start_status = <<>> /\ events = <<>> /\ calls = <<>>
    /\ TrackerIdle
    /\ WebIdle
    /\ DeriveIdle

StartSpec == InitStart /\ [][NextLoad]_vars


\* --------------------------------------------------- the push endpoint
Uuids == {"m1", "m2"}
PushedStatuses == {"operational", "major_outage", "bogus"}

\* the table "machines" with any rows
InitWeb ==
    /\ \E known \in SUBSET Uuids : machines \in [known -> PushedStatuses]
    /\ uploads = {}
    /\ response = NoResponse
    /\ SchedulerIdle
    /\ TrackerIdle
    /\ DeriveIdle
    /\ CacheIdle

\* web_service.rs:42-82  v1::post.  The UPDATE succeeds (db_ok), changing
\* the row of uuid if there is one, or fails.  After a success the handler
\* selects need_upload from a table named "matchines", logs the error
\* that gives and does nothing with the result: no call of the reporter.
web_post(uuid, status, db_ok) ==
    /\ machines' = IF db_ok /\ uuid \in DOMAIN machines
                   THEN [machines EXCEPT ![uuid] = status]
                   ELSE machines
    /\ uploads' = uploads
    /\ response' = [uuid |-> uuid, status |-> status,
                    code |-> IF db_ok THEN 200 ELSE 500,
                    updated |-> db_ok /\ uuid \in DOMAIN machines]
    /\ UNCHANGED <<sched_vars, hist_vars, tracker_vars, derive_vars,
                   cache_vars>>

NextWeb ==
    \E uuid \in Uuids, status \in PushedStatuses, db_ok \in BOOLEAN :
        web_post(uuid, status, db_ok)

WebSpec == InitWeb /\ [][NextWeb]_vars

\* ================================================================ claims
Disagrees(h) == h.cand # h.before.last_status

\* C1: every application of update_last_status_condition follows the
\* three-way rule: an agreeing candidate resets the counter and changes
\* nothing else; a disagreeing one below the threshold increments the
\* counter by one; a disagreeing one at the threshold commits the candidate,
\* resets the counter and returns true.
C1_ThreeWayRule ==
    \A k \in 1..Len(hist) :
        LET h == hist[k] IN
        IF h.cand = h.before.last_status
        THEN /\ h.after.count = 0
             /\ h.after.last_status = h.before.last_status
             /\ h.ret = FALSE
        ELSE IF h.before.count < condition
        THEN /\ h.after.count = h.before.count + 1
             /\ h.after.last_status = h.before.last_status
             /\ h.ret = FALSE
        ELSE /\ h.after.last_status = h.cand
             /\ h.after.count = 0
             /\ h.ret = TRUE

C1_Witness ==
    /\ Len(hist) = 3
    /\ condition = 1
    /\ Disagrees(hist[1]) /\ hist[1].before.count = 0 /\ ~hist[1].ret
    /\ Disagrees(hist[2]) /\ hist[2].ret
    /\ ~Disagrees(hist[3])

\* C2: in every reachable state of the agent each service's count lies in
\* 0..retries-1 (the threshold passed by main_work); with retries = 0 the
\* threshold is never computed and every count is 0.
C2_CounterInRange ==
    \A i \in ServiceIds :
        /\ services[i].count >= 0
        /\ IF retries >= 1
           THEN services[i].count <= retries - 1
           ELSE services[i].count = 0

C2_Witness ==
    /\ retries = 3
    /\ \E i \in ServiceIds : services[i].count = retries - 1

\* C3: with condition 2 and a counter starting at 0, a change is confirmed
\* only by the third of three consecutive disagreeing rounds, and three
\* such rounds do confirm it; two disagreeing rounds followed by an
\* agreeing one leave the status, reset the counter and confirm nothing.
C3_Hysteresis ==
    (condition = 2 /\ Len(hist) >= 1 /\ hist[1].before.count = 0) =>
        /\ \A j \in 1..Len(hist) :
              /\ hist[j].ret =>
                    /\ j >= 3
                    /\ \A m \in (j - 2)..j : Disagrees(hist[m])
              /\ ~hist[j].ret =>
                    hist[j].after.last_status = hist[j].before.last_status
        /\ (Len(hist) >= 3 /\ \A m \in 1..3 : Disagrees(hist[m])) =>
              /\ hist[3].ret
              /\ hist[3].after.last_status = hist[3].cand
        /\ (Len(hist) >= 3 /\ Disagrees(hist[1]) /\ Disagrees(hist[2])
                /\ ~Disagrees(hist[3])) =>
              /\ hist[3].after.last_status = hist[1].before.last_status
              /\ hist[3].after.count = 0
              /\ \A m \in 1..3 : ~hist[m].ret

C3_Witness ==
    /\ condition = 2 /\ Len(hist) = 3 /\ hist[1].before.count = 0
    /\ \A m \in 1..3 : Disagrees(hist[m])
    /\ hist[3].ret
    /\ sw.last_status # hist[1].before.last_status

\* C4: a run of applications whose candidate equals the status the run
\* started with never changes the status, never returns true and leaves the
\* counter at 0 after each application.
C4_Idempotence ==
    \A j \in 1..Len(hist) : \A k \in j..Len(hist) :
        (\A m \in j..k : hist[m].cand = hist[j].before.last_status) =>
            /\ hist[k].after.last_status = hist[j].before.last_status
            /\ hist[k].after.count = 0
            /\ hist[k].ret = FALSE

C4_Witness ==
    /\ Len(hist) = 3
    /\ hist[1].before.count > 0
    /\ \A m \in 1..3 : hist[m].cand = hist[1].before.last_status
    /\ sw.count = 0

\* C5: the reporter is called exactly once per confirmed change, with the
\* service's id, page and new status, and never otherwise; a one-address
\* service that starts Optional under retries = 3 and fails three probes
\* becomes Outage at the third application, not before, with exactly one
\* call, carrying major_outage.
CallsOf(i) == {k \in 1..Len(calls) : calls[k].service = i}

C5_ReporterOncePerEvent ==
    /\ Len(calls) = Len(events)
    /\ \A k \in 1..Len(calls) :
          /\ calls[k].service = events[k].service
          /\ calls[k].component = services[events[k].service].report_uuid
          /\ calls[k].page = services[events[k].service].page
          /\ calls[k].status = ComponentStatusFrom(events[k].status)
    /\ \A i \in ServiceIds :
          (retries = 3 /\ services[i].naddr = 1
             /\ start_status[i] = "Optional" /\ disagreed[i] = applied[i]) =>
              IF applied[i] = 3
              THEN /\ services[i].last_status = "Outage"
                   /\ Cardinality(CallsOf(i)) = 1
                   /\ \A k \in CallsOf(i) : calls[k].status = "major_outage"
              ELSE /\ services[i].last_status = "Optional"
                   /\ CallsOf(i) = {}

C7_CountersZeroAfterCycle ==
    (pc \in {"done", "interval", "spawned", "failed"}) =>
        \A i \in ServiceIds : services[i].count = 0

\* C8: after a failed set_component_status call the cycle goes on: the
\* scheduler is still inside main_work or has completed it normally.
C8_ReportFailureDoesNotAbort ==
    (\E k \in 1..Len(calls) : calls[k].result = "err") =>
        pc \in {"loop", "ping", "report", "sleep", "done", "interval"}

\* C9: after a failed report the service keeps the newly confirmed status,
\* which differs from the one it had, and its count is 0.
C9_NoRollback ==
    \A k \in 1..Len(calls) :
        (calls[k].result = "err") =>
            LET e == events[k] IN
            /\ e.service = calls[k].service
            /\ services[e.service].last_status = e.status
            /\ services[e.service].last_status # start_status[e.service]
            /\ services[e.service].count = 0

C9_Witness ==
    /\ pc = "failed"
    /\ \E k \in 1..Len(calls) :
          /\ calls[k].result = "err"
          /\ services[calls[k].service].last_status = "Outage"

\* C10: the empty vector derives Unknown, an all-true vector Optional, an
\* all-false vector Outage, and a mixed vector of length 2 PartialOutage.
C10_Derivation ==
    (derived # "none") =>
        LET n == Len(vec)
            allTrue == \A k \in 1..n : vec[k]
            allFalse == \A k \in 1..n : ~vec[k]
        IN  /\ (n = 0) => derived = "Unknown"
            /\ (n > 0 /\ allTrue) => derived = "Optional"
            /\ (n > 0 /\ allFalse) => derived = "Outage"
            /\ (n = 2 /\ ~allTrue /\ ~allFalse) => derived = "PartialOutage"

C10_Witness ==
    /\ Len(vec) = 2 /\ vec[1] # vec[2]
    /\ derived = "PartialOutage"

\* C11: a mixed vector of n > 2 results with k healthy derives
\* DegradedPerformance when k >= n / 3 * 2 (that is 3k >= 2n) and
\* PartialOutage otherwise; n = 3, k = 2 gives DegradedPerformance and
\* n = 3, k = 1 gives PartialOutage.
C11_DegradedThreshold ==
    LET n == Len(vec)
        k == CountTrue(vec)
    IN  (derived # "none" /\ n > 2 /\ 0 < k /\ k < n) =>
            derived = IF 3 * k >= 2 * n THEN "DegradedPerformance"
                      ELSE "PartialOutage"

\* C12: read_cache returns a well-formed snapshot iff its version is
\* CURRENT_VERSION and now - timestamp <= DEADLINE; another version gives
\* the version error whatever the age, a current version aged DEADLINE + 1
\* the outdated error, and one aged exactly DEADLINE is returned with its
\* data.
C12_ReadCacheAccepts ==
    LET f == cread.file
        age == cread.at - f.timestamp
    IN  (cread.tag # "none" /\ f.kind \in {"header_only", "snapshot"}) =>
            /\ (f.version # CURRENT_VERSION) => cread.tag = "version"
            /\ (f.kind = "snapshot") =>
                  /\ cread.tag = "ok" <=>
                        (f.version = CURRENT_VERSION /\ age <= DEADLINE)
                  /\ (f.version = CURRENT_VERSION /\ age = DEADLINE + 1) =>
                        cread.tag = "outdated"
                  /\ (f.version = CURRENT_VERSION /\ age = DEADLINE) =>
                        (cread.tag = "ok" /\ cread.data = f.body)

\* C13: a file written by the agent and read back while its age is at most
\* DEADLINE is returned, with one entry per configured service, in order,
\* carrying the service's id and a string that parses back to the
\* service's last_status, for every status.
C13_CacheRoundTrip ==
    (cread.tag # "none" /\ cread.file.origin = "agent"
        /\ cread.at - cread.file.timestamp <= DEADLINE) =>
            /\ cread.tag = "ok"
            /\ Len(cread.data) = Len(creg)
            /\ \A i \in 1..Len(creg) :
                  /\ cread.data[i].id = creg[i].report_uuid
                  /\ ServerLastStatusTryFrom(cread.data[i].last_status)
                        = creg[i].last_status

C13_Witness ==
    /\ cread.tag = "ok"
    /\ cread.file.origin = "agent"
    /\ cread.at - cread.file.timestamp = DEADLINE
    /\ \E i \in 1..Len(creg) : creg[i].last_status = "Unknown"
    /\ \E i \in 1..Len(creg) : creg[i].last_status = "DegradedPerformance"

\* read_cache returned an error value
ReadFailed ==
    cread.tag \in {"io", "decode", "version", "outdated", "decode_full"}

\* what the startup does when there is no cache file at all
ColdStart == ConfigureTryFrom(cfg, <<>>, remote)

WarmOutage ==
    {i \in DOMAIN services :
        \E j \in DOMAIN cread.data :
            /\ cread.data[j].id = services[i].report_uuid
            /\ ServerLastStatusTryFrom(cread.data[j].last_status) = "Outage"}

C16_WriteErrorNotFatal ==
    [][/\ (cpc = "io" /\ cpc' # "io" /\ proc' = "running") => cpc' = "wait"
       /\ (cpc = "failed" /\ pc \notin {"failed", "panicked"}) =>
              proc' # "exit_err"]_vars

\* C17: the scheduler does not hold the lock while a probe is in flight,
\* while the reporter is being called or while it sleeps between
\* sub-rounds.
C17_LockOnlyDuringMutation ==
    lock = "main" => pc \notin {"ping", "report", "sleep"}

\* C18: while the cache writer serializes and writes the file it does not
\* hold the lock, so a scheduler that is about to start a cycle finds the
\* lock free.
C18_WriterReleasesBeforeIO ==
    (proc = "running" /\ cpc = "io") =>
        /\ lock # "cache"
        /\ (pc = "spawned") => lock = "free"

C18_Witness ==
    /\ cpc = "io"
    /\ lock = "main" /\ pc = "ping"

\* C19: the services are only written by the scheduler while it holds the
\* lock, one result at a time, and the next sub-round starts only from the
\* sleep that follows a sub-round in which every service was skipped or
\* probed, with no probe in flight and the result of every probe applied.
C19_SerializedApplication ==
    [][/\ (services' # services /\ proc' = "running") =>
              /\ lock = "main" /\ lock' \in {"main", "free"}
              /\ pc \in {"ping", "loop"}
              /\ cpc' = cpc
       /\ (times' > times) =>
              /\ pc = "sleep"
              /\ probed \cup skipped = ServiceIds
              /\ \A i \in probed : applied[i] > 0 /\ i < idx]_vars

C19_Witness ==
    /\ times > 0 /\ pc = "ping"
    /\ NumServices > 1
    /\ cpc = "io"
    /\ \E i \in ServiceIds : applied[i] > 1

\* C20: a probe in flight does not hold back the other probes of its
\* sub-round: whenever the scheduler awaits a probe, the probe of every
\* component the sub-round does not skip has been dispatched.
C20_ConcurrentDispatch ==
    (proc = "running" /\ pc = "ping") =>
        \A i \in ServiceIds :
            ~skip_service(times, services[i]) => i \in probed

\* C21: with interval 0 the scheduler runs one cycle and starts no other,
\* and once that cycle has finished the process keeps running until the
\* interrupt signal arrives.
C21_ZeroIntervalWaitsForSignal ==
    [][(proc = "running" /\ interval = 0 /\ pc = "done"
            /\ cpc # "failed") =>
          /\ pc' \in {"done", "off"}
          /\ proc' = "running" \/ signalled']_vars

\* C22: with a nonzero interval the scheduler task never ends while the
\* process runs: it neither returns nor stops on a failed upstream report.
C22_CyclesRepeat ==
    (proc = "running" /\ interval # 0) =>
        pc \notin {"done", "failed", "panicked"}

\* C26: the interrupt signal makes the process exit with code 0, and after
\* startup the process never exits with a nonzero code.
C26_CleanExitOnSignal ==
    /\ signalled => proc = "exit_ok"
    /\ proc # "exit_err"

\* C23: every Err a probe returns counts as false for its address: the
\* ping of a service always yields one bool per address, true exactly for
\* the addresses whose probe returned Ok(true), whatever the other probes
\* returned, and a status is derived from it.
C23_ProbeErrorIsUnreachable ==
    (derived # "none") =>
        /\ Len(vec) = Len(addrs)
        /\ \A i \in DOMAIN addrs :
              /\ vec[i] = (rets[i] = "ok_true")
              /\ rets[i] \in {"err_other", "err_elapsed"} => vec[i] = FALSE
        /\ derived = ServerLastStatusFromVec(
                         [i \in DOMAIN addrs |-> rets[i] = "ok_true"])

C23_Witness ==
    /\ derived = "Outage"
    /\ Len(addrs) > 1
    /\ rets[1] = "err_other" /\ addrs[1].net = "bind_fail"
    /\ rets[2] = "ok_false"

\* the timeout and the transient conditions of a probe
Transient ==
    {"timeout", "write_timeout", "read_timeout", "refused", "reset",
     "aborted"}

\* C24: a probe of any kind that meets a timeout or a refused, reset or
\* aborted connection returns Ok(false).
C24_TransientIsOkFalse ==
    \A i \in DOMAIN rets :
        addrs[i].net \in Transient => rets[i] = "ok_false"

\* the well-formed components of the configuration, in order
WellFormed == SelectSeq(cfg, LAMBDA c : c.form = "ok")

\* C25: a malformed component does not make the load fail: once
\* Configure::try_from is over the scheduler is spawned and the services
\* are the well-formed components of the configuration, in order.
C25_MalformedComponentDropped ==
    (cread.tag # "none" /\ pc # "configure") =>
        /\ pc = "spawned"
        /\ Len(services) = Len(WellFormed)
        /\ \A i \in DOMAIN services :
              services[i].report_uuid = WellFormed[i].report_uuid

\* C27: no confirmed change of a cycle carries Unknown, so the conversion
\* to a ComponentStatus is never reached with Unknown and the scheduler
\* never panics there.
C27_UnknownNeverCommitted ==
    /\ \A k \in DOMAIN events : events[k].status # "Unknown"
    /\ pc # "panicked"

\* C28: when a POST has updated the persisted status of a component, the
\* new status has been handed to the upstream reporter by the time the
\* response is given.
C28_PushForwarded ==
    response.updated =>
        /\ machines[response.uuid] = response.status
        /\ [uuid |-> response.uuid, status |-> response.status] \in uploads

\* C29: the steps of the cache writer (taking the snapshot, writing the
\* file, failing to write it) leave every service's last_status and count
\* as they were; the services change only in steps of the scheduler.
C29_WriterLeavesServices ==
    [][(proc' = "running" /\ cpc' # cpc) =>
          /\ services' = services
          /\ pc' = pc /\ times' = times /\ idx' = idx]_vars

C29_Witness ==
    /\ cpc = "io" /\ pc = "interval"
    /\ \E i \in ServiceIds : services[i].last_status # start_status[i]

\* the confirmed changes of service i in the current cycle
EventsOf(i) == {k \in DOMAIN events : events[k].service = i}

\* C30: within a cycle (counters 0 at its start, condition retries - 1,
\* retries >= 1) a service's last_status differs from its value at the
\* start of the cycle only through one confirmed change, made while the
\* last sub-round is applied, after the service's candidate disagreed with
\* its status in every one of the retries sub-rounds; the reporter is
\* called at most once for it.
C30_ChangeOnlyInLastSubRound ==
    (retries >= 1) =>
        \A i \in ServiceIds :
            /\ Cardinality(EventsOf(i)) <= 1
            /\ (services[i].last_status # start_status[i]) =>
                  EventsOf(i) # {}
            /\ (EventsOf(i) # {}) =>
                  /\ times >= retries - 1
                  /\ applied[i] = retries
                  /\ disagreed[i] = retries
            /\ Cardinality(CallsOf(i)) <= 1

C30_Witness ==
    /\ retries > 1
    /\ NumServices > 1
    /\ EventsOf(2) # {}
    /\ Cardinality(CallsOf(2)) = 1
    /\ applied[1] = 1

\* C31: a service whose candidate disagreed with its status in each of the
\* retries applications of a cycle (counter 0 at its start, condition
\* retries - 1) has, after the last of them, the candidate of that last
\* application as its last_status, and the reporter has been called for it
\* with that candidate's component status, whatever the earlier candidates
\* were.
C31_CommitsRoundCandidate ==
    \A i \in ServiceIds :
        (retries >= 1 /\ applied[i] = retries /\ disagreed[i] = retries) =>
            /\ \E k \in EventsOf(i) :
                  events[k].status = services[i].last_status
            /\ \E k \in CallsOf(i) :
                  calls[k].status = ComponentStatusFrom(services[i].last_status)

\* C32: every step in which the cache writer takes its snapshot starts in a
\* state between cycles: the scheduler is outside main_work having finished
\* every cycle it began (before its first cycle, in the sleep between two
\* cycles or after its last one), and every service's count is 0.
C32_SnapshotBetweenCycles ==
    [][(cpc = "wait" /\ cpc' = "io") =>
          /\ pc \in {"spawned", "interval", "done"}
          /\ \A i \in ServiceIds : services[i].count = 0]_vars

\* C33: in repeating mode, unless the interrupt signal arrives, a cache
\* writer waiting for its snapshot eventually takes it, a snapshot taken is
\* eventually written and the writer waits for the next one, and a
\* scheduler that does not hold the lock eventually holds it again for a
\* cycle.
C33_NoStarvation ==
    /\ (proc = "running" /\ cpc = "wait") ~> (cpc = "io" \/ signalled)
    /\ (proc = "running" /\ cpc = "io") ~> (cpc = "wait" \/ signalled)
    /\ (proc = "running" /\ lock # "main") ~> (lock = "main" \/ signalled)

\* the entries of the cache that was read whose id is that of service i
CachedFor(i) ==
    {j \in DOMAIN cread.data : cread.data[j].id = cfg[i].report_uuid}

\* C34: when the startup has built the services there is one per
\* configured component, in order, with count 0; a component with an entry
\* in a valid cache has that entry's status and was not asked from the
\* upstream; any other component was asked from the upstream and has
\* Optional, DegradedPerformance or PartialOutage for operational,
\* degraded_performance or partial_outage and Outage for every other
\* answer.
C34_InitialStatus ==
    (pc = "spawned") =>
        /\ Len(services) = Len(cfg)
        /\ \A i \in DOMAIN services :
              /\ services[i].report_uuid = cfg[i].report_uuid
              /\ services[i].count = 0
              /\ IF cread.tag = "ok" /\ CachedFor(i) # {}
                 THEN /\ \E j \in CachedFor(i) :
                           /\ \A k \in CachedFor(i) : k <= j
                           /\ ServerLastStatusDisplay(services[i].last_status)
                                 = cread.data[j].last_status
                      /\ cfg[i].report_uuid \notin fetched
                 ELSE /\ cfg[i].report_uuid \in fetched
                      /\ LET answer == remote[cfg[i].report_uuid] IN
                         services[i].last_status =
                            CASE answer = "operational" -> "Optional"
                              [] answer = "degraded_performance" ->
                                    "DegradedPerformance"
                              [] answer = "partial_outage" -> "PartialOutage"
                              [] answer \in {"under_maintenance",
                                             "major_outage"} -> "Outage"

C34_Witness ==
    /\ pc = "spawned" /\ cread.tag = "ok" /\ Len(services) = 2
    /\ \E j \in DOMAIN cread.data : cread.data[j].id = "cx"
    /\ CachedFor(1) # {} /\ services[1].last_status = "PartialOutage"
    /\ remote["c1"] = "operational"
    /\ CachedFor(2) = {} /\ remote["c2"] = "under_maintenance"
    /\ services[2].last_status = "Outage" /\ fetched = {"c2"}

\* C35: with retries = 1 a service whose one application of the cycle
\* disagreed has a new status, one confirmed change and one reporter call;
\* with retries = 0 no service is pinged or applied, no status changes,
\* nothing is reported and the scheduler never reaches the step that
\* computes retries - 1.
C35_BoundaryRetries ==
    /\ (retries = 1) =>
          \A i \in ServiceIds :
              (applied[i] = 1 /\ disagreed[i] = 1) =>
                  /\ services[i].last_status # start_status[i]
                  /\ services[i].count = 0
                  /\ Cardinality(EventsOf(i)) = 1
                  /\ Cardinality(CallsOf(i)) = 1
    /\ (retries = 0 /\ proc = "running") =>
          /\ pc \notin {"ping", "report", "sleep", "failed", "panicked"}
          /\ probed = {} /\ events = <<>> /\ calls = <<>>
          /\ \A i \in ServiceIds :
                /\ applied[i] = 0
                /\ services[i].last_status = start_status[i]
                /\ services[i].count = 0

\* C36: reading a file of the current version whose timestamp is later
\* than the time of the read neither aborts nor takes a wrapped difference
\* for the age: read_cache does not panic, and it answers outdated only for
\* an age above DEADLINE.
C36_FutureTimestampNoUnderflow ==
    LET f == cread.file IN
    (/\ cread.tag # "none"
     /\ f.kind \in {"header_only", "snapshot"}
     /\ f.version = CURRENT_VERSION
     /\ f.timestamp > cread.at) =>
        /\ cread.tag # "panic"
        /\ (cread.tag = "outdated") => cread.at - f.timestamp > DEADLINE

\* C37: a step that applies the probe result of the service at idx, or in
\* which the report of its change returns, leaves the number of services,
\* every other service, and the report_uuid, page and addresses of the
\* service at idx as they were.
C37_ApplyFrame ==
    [][(proc = "running" /\ proc' = "running" /\ pc \in {"ping", "report"}) =>
          /\ DOMAIN services' = DOMAIN services
          /\ \A i \in ServiceIds :
                /\ services'[i].report_uuid = services[i].report_uuid
                /\ services'[i].page = services[i].page
                /\ services'[i].naddr = services[i].naddr
                /\ (i # idx) => services'[i] = services[i]]_vars

C37_Witness ==
    /\ NumServices = 2 /\ pc = "report" /\ idx = 1
    /\ services[1].last_status # start_status[1]
    /\ services[2].count > 0
    /\ services[2].last_status = start_status[2]

====
